---- MODULE Spec2Model ----
(***************************************************************************)
(* Model of vinyl-tracker.py: the catalog of bands and albums kept by      *)
(* VinylTrackerApp, its inventory file, its image directory, the handlers  *)
(* of the buttons and list boxes, and the text import and export.          *)
(*                                                                         *)
(* A string is a sequence of one-character strings.  An optional string    *)
(* (Python None or str) is a record [none, s].                             *)
(***************************************************************************)
EXTENDS Integers, Sequences, FiniteSets, TLC

VARIABLES
  data,            \* self.data, the catalog in memory
  file,            \* INVENTORY_FILE: absent, unparseable, or a document
  assets,          \* the names of the files in IMAGES_DIR
  selected_band,   \* self.selected_band
  selected_album,  \* self.selected_album
  band_listbox,    \* the lines of self.band_listbox
  album_listbox,   \* the lines of self.album_listbox
  remove_button,   \* self.remove_image_button is enabled
  phase,           \* "off": no process; "running": the window is open
  last             \* the last operation, its operands and its outcome

vars == <<data, file, assets, selected_band, selected_album, band_listbox,
          album_listbox, remove_button, phase, last>>

(***************************************************************************)
(* Bounds of the model.                                                    *)
(***************************************************************************)
MaxBands == 2
MaxAlbums == 2
MaxFiles == 3

(***************************************************************************)
(* Strings.                                                                *)
(***************************************************************************)
None == [none |-> TRUE, s |-> <<>>]

Some(s) == [none |-> FALSE, s |-> s]

\* Python truthiness of an optional string: None and "" are false.
Truthy(v) == (~v.none) /\ v.s # <<>>

\* Characters removed by str.strip().
Whitespace == {" ", "\t", "\n", "\r"}

RECURSIVE LStrip(_)
LStrip(s) ==
  IF s # <<>> /\ Head(s) \in Whitespace THEN LStrip(Tail(s)) ELSE s

RECURSIVE RStrip(_)
RStrip(s) ==
  IF s # <<>> /\ s[Len(s)] \in Whitespace
  THEN RStrip(SubSeq(s, 1, Len(s) - 1))
  ELSE s

\* str.strip()
Strip(s) == RStrip(LStrip(s))

\* The string of n copies of the character c.
Rep(c, n) == [i \in 1..n |-> c]

\* The characters of the class [<>:"/\\|?*] of validate_input and associate_image.
ForbiddenChars == {"<", ">", ":", "\"", "/", "\\", "|", "?", "*"}

\* re.search(r'[<>:"/\\|?*]', s)
HasForbidden(s) == \E i \in 1..Len(s) : s[i] \in ForbiddenChars

\* The separator of the text format.
Sep == <<" ", "-", " ">>

\* t occurs in s at position i.
OccursAt(s, t, i) ==
  /\ i >= 1
  /\ i + Len(t) - 1 <= Len(s)
  /\ SubSeq(s, i, i + Len(t) - 1) = t

\* s.find(t) from position i on: the first position of t in s, 0 if none.
RECURSIVE Find(_, _, _)
Find(s, t, i) ==
  IF i + Len(t) - 1 > Len(s) THEN 0
  ELSE IF OccursAt(s, t, i) THEN i
  ELSE Find(s, t, i + 1)

\* t in s
Contains(s, t) == Find(s, t, 1) # 0

\* s.split(t): the parts between the occurrences of t, found left to right.
RECURSIVE Split(_, _)
Split(s, t) ==
  LET i == Find(s, t, 1)
  IN IF i = 0
     THEN <<s>>
     ELSE <<SubSeq(s, 1, i - 1)>> \o Split(SubSeq(s, i + Len(t), Len(s)), t)

\* The lines joined by a blank instead of a line break.
RECURSIVE Join_blank(_)
Join_blank(lines) ==
  IF lines = <<>> THEN <<>>
  ELSE IF Len(lines) = 1 THEN lines[1]
  ELSE lines[1] \o <<" ">> \o Join_blank(Tail(lines))

\* "\n".join(lines)
RECURSIVE Join(_)
Join(lines) ==
  IF lines = <<>> THEN <<>>
  ELSE IF Len(lines) = 1 THEN lines[1]
  ELSE lines[1] \o <<"\n">> \o Join(Tail(lines))

\* The position of the first line break of the text from position i on,
\* 0 if none.
RECURSIVE FindBreak(_, _)
FindBreak(text, i) ==
  IF i > Len(text) THEN 0
  ELSE IF text[i] \in {"\n", "\r"} THEN i
  ELSE FindBreak(text, i + 1)

\* f.readlines(): the text cut after each line break (a cut after "\r" and
\* after "\n" leaves the same stripped lines as one cut after "\r\n").
RECURSIVE ReadLines(_)
ReadLines(text) ==
  LET i == FindBreak(text, 1)
  IN IF text = <<>> THEN <<>>
     ELSE IF i = 0 THEN <<text>>
     ELSE <<SubSeq(text, 1, i)>> \o ReadLines(SubSeq(text, i + 1, Len(text)))

\* sorted(set of strings): ascending by code point, a prefix first.
CodePoint(c) ==
  CASE c = "\t" -> 9
    [] c = "\n" -> 10
    [] c = "\r" -> 13
    [] c = " " -> 32
    [] c = "-" -> 45
    [] c = "/" -> 47
    [] c = "O" -> 79
    [] c = "P" -> 80
    [] c = "_" -> 95
    [] c = "a" -> 97
    [] c = "b" -> 98
    [] c = "c" -> 99
    [] c = "e" -> 101
    [] c = "l" -> 108
    [] c = "n" -> 110
    [] c = "r" -> 114
    [] c = "t" -> 116
    [] c = "x" -> 120
    [] c = "y" -> 121
    [] OTHER -> 0

RECURSIVE StrLess(_, _)
StrLess(s, t) ==
  IF t = <<>> THEN FALSE
  ELSE IF s = <<>> THEN TRUE
  ELSE IF Head(s) = Head(t) THEN StrLess(Tail(s), Tail(t))
  ELSE CodePoint(Head(s)) < CodePoint(Head(t))

RECURSIVE Sorted(_)
Sorted(S) ==
  IF S = {} THEN <<>>
  ELSE LET m == CHOOSE x \in S : \A y \in S \ {x} : StrLess(x, y)
       IN <<m>> \o Sorted(S \ {m})

(***************************************************************************)
(* validate_input                                                          *)
(***************************************************************************)
\* The longest name that validate_input accepts.
MaxNameLen == 100

\* validate_input with the length test off by one.
validate_input_short(name) ==
  IF name = <<>> \/ Len(Strip(name)) = 0
  THEN [valid |-> FALSE, msg |-> "Name cannot be empty."]
  ELSE IF Len(name) >= MaxNameLen
  THEN [valid |-> FALSE, msg |-> "Name is too long (maximum 100 characters)."]
  ELSE IF \E i \in 1..Len(name) : name[i] \in {"<", ">", ":", "\"", "/", "\\", "|", "?", "*"}
  THEN [valid |-> FALSE, msg |-> "Name contains forbidden characters"]
  ELSE [valid |-> TRUE, msg |-> ""]

validate_input(name) ==
  IF name = <<>> \/ Len(Strip(name)) = 0
  THEN [valid |-> FALSE, msg |-> "Name cannot be empty."]
  ELSE IF Len(name) > MaxNameLen
  THEN [valid |-> FALSE, msg |-> "Name is too long (maximum 100 characters)."]
  ELSE IF HasForbidden(name)
  THEN [valid |-> FALSE, msg |-> "Name contains forbidden characters"]
  ELSE [valid |-> TRUE, msg |-> ""]

\* simple_input_dialog: OK closes the dialog with the typed text only when
\* validate_input accepts it; a rejected text leaves the dialog open, and
\* Cancel returns None.
simple_input_dialog(typed) ==
  IF validate_input(typed).valid THEN Some(typed) ELSE None

(***************************************************************************)
(* The catalog document and the files.                                     *)
(***************************************************************************)
EmptyMap == [k \in {} |-> None]

Put(f, k, v) == [x \in (DOMAIN f) \cup {k} |-> IF x = k THEN v ELSE f[x]]

Del(f, k) == [x \in (DOMAIN f) \ {k} |-> f[x]]

\* {"bands": {}}
EmptyData == [bands |-> EmptyMap]

Bands(d) == DOMAIN d.bands

Albums(d, b) == DOMAIN d.bands[b].albums

Image(d, b, a) == d.bands[b].albums[a].image

SetImage(d, b, a, v) ==
  [d EXCEPT !.bands[b].albums[a] = [image |-> v]]

RECURSIVE SumOver(_, _)
SumOver(f, S) ==
  IF S = {} THEN 0
  ELSE LET x == CHOOSE y \in S : TRUE
       IN Cardinality(DOMAIN f[x].albums) + SumOver(f, S \ {x})

\* The number of albums of the catalog.
TotalAlbums(d) == SumOver(d.bands, Bands(d))

AbsentFile == [kind |-> "absent", doc |-> EmptyData]

CorruptFile == [kind |-> "corrupt", doc |-> EmptyData]

DocFile(d) == [kind |-> "doc", doc |-> d]

\* os.path.relpath(dest_path, start=BASE_DIR) of a file of IMAGES_DIR.
RelPath(fname) == <<"images/">> \o fname

\* os.path.exists(os.path.join(BASE_DIR, rel)): the files under BASE_DIR that
\* the model holds are those of IMAGES_DIR.
PathExists(fs, rel) ==
  /\ rel # <<>>
  /\ Head(rel) = "images/"
  /\ Tail(rel) \in fs

\* os.remove(os.path.join(BASE_DIR, rel))
RemovePath(fs, rel) == fs \ {Tail(rel)}

\* The outcome of the file operations of one handler: of the write of the
\* inventory file, of the copy or removal of an image file, and of the read
\* of a file.  In the runs of this model the file operations succeed.
IOok == [save |-> "ok", fs |-> TRUE, read |-> TRUE]

\* The record of an operation: its name, its outcome, the text or the name
\* it was given (the text typed in a dialog, the extension of the file
\* offered to associate_image, the text of the file offered to
\* import_collection, the band of delete_band, the album of delete_album and
\* remove_image, the text written by export_collection), the image file it
\* wrote or the path it removed, a count (added_count of import_collection,
\* 1 when the file offered to associate_image is a decodable image, the
\* number of fields normalised by load_data) and the outcome of save_data.
Op(op, res, arg, dest, count) ==
  [op |-> op, res |-> res, arg |-> arg, dest |-> dest, count |-> count,
   save |-> "none"]

\* The state of the application as one record.
St == [data |-> data, file |-> file, assets |-> assets,
       selected_band |-> selected_band, selected_album |-> selected_album,
       band_listbox |-> band_listbox, album_listbox |-> album_listbox,
       remove_button |-> remove_button, last |-> last]

(***************************************************************************)
(* Catalog store.                                                          *)
(***************************************************************************)
\* save_data: open(INVENTORY_FILE, "w") and json.dump; a failure of open
\* leaves the file as it was, a failure of the write leaves it truncated.
save_data(st, io) ==
  [st EXCEPT !.file = IF io.save = "ok" THEN DocFile(st.data)
                      ELSE IF io.save = "openfail" THEN st.file
                      ELSE CorruptFile,
             !.last.save = io.save]

\* No normalisation.
NormalizeImages_none(d) == d

\* The normalisation loop of load_data.
NormalizeImages(d) ==
  [bands |-> [b \in Bands(d) |->
     [albums |-> [a \in Albums(d, b) |->
        IF Image(d, b, a) = Some(<<>>)
        THEN [image |-> None]
        ELSE d.bands[b].albums[a]]]]]

RECURSIVE CountEmptyImages(_, _)
CountEmptyImages(d, S) ==
  IF S = {} THEN 0
  ELSE LET b == CHOOSE x \in S : TRUE
       IN Cardinality({a \in Albums(d, b) : Image(d, b, a) = Some(<<>>)})
          + CountEmptyImages(d, S \ {b})

\* load_data without the save_data at its end.
load_data_unsaved(st, io) ==
  LET loaded == IF st.file.kind = "doc" /\ io.read
                THEN st.file.doc
                ELSE EmptyData
      res == IF st.file.kind = "doc" /\ io.read THEN "ok"
             ELSE IF st.file.kind = "absent" THEN "notfound"
             ELSE "error"
  IN [st EXCEPT !.data = NormalizeImages(loaded),
                !.last = Op("load", res, <<>>, <<>>,
                            CountEmptyImages(loaded, Bands(loaded)))]

\* load_data; the record of the operation counts the image fields that the
\* normalisation changes.
load_data(st, io) ==
  LET loaded == IF st.file.kind = "doc" /\ io.read
                THEN st.file.doc
                ELSE EmptyData
      res == IF st.file.kind = "doc" /\ io.read THEN "ok"
             ELSE IF st.file.kind = "absent" THEN "notfound"
             ELSE "error"
  IN save_data([st EXCEPT !.data = NormalizeImages(loaded),
                          !.last = Op("load", res, <<>>, <<>>,
                                      CountEmptyImages(loaded, Bands(loaded)))],
                io)

(***************************************************************************)
(* List boxes and selection.                                               *)
(***************************************************************************)
refresh_bands(st) ==
  [st EXCEPT !.band_listbox = Sorted(Bands(st.data)),
             !.selected_band = None,
             !.selected_album = None,
             !.album_listbox = <<>>,
             !.remove_button = FALSE]

\* refresh_albums without the reset of selected_album.
refresh_albums_keep(st, band_name) ==
  [st EXCEPT !.album_listbox =
               IF Truthy(band_name) /\ band_name.s \in Bands(st.data)
               THEN Sorted(Albums(st.data, band_name.s))
               ELSE <<>>,
             !.remove_button = FALSE]

refresh_albums(st, band_name) ==
  [st EXCEPT !.album_listbox =
               IF Truthy(band_name) /\ band_name.s \in Bands(st.data)
               THEN Sorted(Albums(st.data, band_name.s))
               ELSE <<>>,
             !.selected_album = None,
             !.remove_button = FALSE]

\* on_band_select with the line idx selected (0: no line).
on_band_select(st, idx) ==
  IF idx = 0 THEN st
  ELSE refresh_albums([st EXCEPT !.selected_band = Some(st.band_listbox[idx])],
                      Some(st.band_listbox[idx]))

\* on_album_select with the line idx selected (0: no line).
on_album_select(st, idx) ==
  IF ~Truthy(st.selected_band) THEN st
  ELSE IF idx = 0
  THEN [st EXCEPT !.selected_album = None, !.remove_button = FALSE]
  ELSE IF st.selected_band.s \notin Bands(st.data)
  THEN [st EXCEPT !.selected_album = None, !.remove_button = FALSE]
  ELSE LET album_name == st.album_listbox[idx]
           b == st.selected_band.s
           image_rel_path == IF album_name \in Albums(st.data, b)
                             THEN Image(st.data, b, album_name)
                             ELSE None
       IN [st EXCEPT !.selected_album = Some(album_name),
                     !.remove_button = Truthy(image_rel_path)
                                       /\ PathExists(st.assets, image_rel_path.s)]

IndexOf(seq, x) ==
  IF \E i \in 1..Len(seq) : seq[i] = x
  THEN CHOOSE i \in 1..Len(seq) : seq[i] = x /\ \A j \in 1..(i - 1) : seq[j] # x
  ELSE 0

select_band_by_name(st, band_name) ==
  IF IndexOf(st.band_listbox, band_name) # 0
  THEN on_band_select(st, IndexOf(st.band_listbox, band_name))
  ELSE st

select_album_by_name(st, album_name) ==
  IF IndexOf(st.album_listbox, album_name) # 0
  THEN on_album_select(st, IndexOf(st.album_listbox, album_name))
  ELSE st

(***************************************************************************)
(* Catalog operations.  Each takes the state, what the user enters and the *)
(* outcome of the file operations, and returns the state it leaves.        *)
(***************************************************************************)
\* add_band with the text typed in the dialog.
add_band(st, typed, io) ==
  LET band_name == simple_input_dialog(typed)
      name == Strip(band_name.s)
  IN IF ~Truthy(band_name)
     THEN [st EXCEPT !.last = Op("add_band", "invalid", typed, <<>>, 0)]
     ELSE IF name \in Bands(st.data)
     THEN [st EXCEPT !.last = Op("add_band", "exists", typed, <<>>, 0)]
     ELSE select_band_by_name(
            refresh_bands(
              save_data(
                [st EXCEPT !.data.bands = Put(@, name, [albums |-> EmptyMap]),
                           !.last = Op("add_band", "ok", typed, <<>>, 0)],
                io)),
            name)

\* delete_band without save_data.
delete_band_unsaved(st, confirm, io) ==
  IF ~Truthy(st.selected_band)
  THEN [st EXCEPT !.last = Op("delete_band", "noselection", <<>>, <<>>, 0)]
  ELSE IF ~confirm
  THEN [st EXCEPT !.last = Op("delete_band", "declined", st.selected_band.s, <<>>, 0)]
  ELSE IF st.selected_band.s \notin Bands(st.data)
  THEN [st EXCEPT !.last = Op("delete_band", "keyerror", st.selected_band.s, <<>>, 0)]
  ELSE refresh_bands(
         [st EXCEPT !.data.bands = Del(@, st.selected_band.s),
                    !.last = Op("delete_band", "ok", st.selected_band.s, <<>>, 0)])

\* delete_band with the answer to the confirmation.
delete_band(st, confirm, io) ==
  IF ~Truthy(st.selected_band)
  THEN [st EXCEPT !.last = Op("delete_band", "noselection", <<>>, <<>>, 0)]
  ELSE IF ~confirm
  THEN [st EXCEPT !.last = Op("delete_band", "declined", st.selected_band.s, <<>>, 0)]
  ELSE IF st.selected_band.s \notin Bands(st.data)
  THEN [st EXCEPT !.last = Op("delete_band", "keyerror", st.selected_band.s, <<>>, 0)]
  ELSE refresh_bands(
         save_data(
           [st EXCEPT !.data.bands = Del(@, st.selected_band.s),
                      !.last = Op("delete_band", "ok", st.selected_band.s, <<>>, 0)],
           io))

\* add_album without the test that the album exists.
add_album_overwrite(st, typed, io) ==
  LET album_name == simple_input_dialog(typed)
      name == Strip(album_name.s)
      b == st.selected_band.s
  IN IF ~Truthy(st.selected_band)
     THEN [st EXCEPT !.last = Op("add_album", "noselection", typed, <<>>, 0)]
     ELSE IF ~Truthy(album_name)
     THEN [st EXCEPT !.last = Op("add_album", "invalid", typed, <<>>, 0)]
     ELSE IF ~validate_input(name).valid
     THEN [st EXCEPT !.last = Op("add_album", "invalid", typed, <<>>, 0)]
     ELSE IF b \notin Bands(st.data)
     THEN [st EXCEPT !.last = Op("add_album", "keyerror", typed, <<>>, 0)]
     ELSE select_album_by_name(
            refresh_albums(
              save_data(
                [st EXCEPT !.data.bands[b].albums = Put(@, name, [image |-> None]),
                           !.last = Op("add_album", "ok", typed, <<>>, 0)],
                io),
              st.selected_band),
            name)

\* add_album with the text typed in the dialog.
add_album(st, typed, io) ==
  LET album_name == simple_input_dialog(typed)
      name == Strip(album_name.s)
      b == st.selected_band.s
  IN IF ~Truthy(st.selected_band)
     THEN [st EXCEPT !.last = Op("add_album", "noselection", typed, <<>>, 0)]
     ELSE IF ~Truthy(album_name)
     THEN [st EXCEPT !.last = Op("add_album", "invalid", typed, <<>>, 0)]
     ELSE IF ~validate_input(name).valid
     THEN [st EXCEPT !.last = Op("add_album", "invalid", typed, <<>>, 0)]
     ELSE IF b \notin Bands(st.data)
     THEN [st EXCEPT !.last = Op("add_album", "keyerror", typed, <<>>, 0)]
     ELSE IF name \in Albums(st.data, b)
     THEN [st EXCEPT !.last = Op("add_album", "exists", typed, <<>>, 0)]
     ELSE select_album_by_name(
            refresh_albums(
              save_data(
                [st EXCEPT !.data.bands[b].albums = Put(@, name, [image |-> None]),
                           !.last = Op("add_album", "ok", typed, <<>>, 0)],
                io),
              st.selected_band),
            name)

\* The image file of an album is never removed.
RemoveAlbumImage_keep(st, image_rel_path, io) == st.assets

\* The removal of the image file of an album by delete_album and
\* remove_image: the file goes when the reference is set, the file exists
\* and os.remove succeeds.
RemoveAlbumImage(st, image_rel_path, io) ==
  IF Truthy(image_rel_path)
     /\ PathExists(st.assets, image_rel_path.s)
     /\ io.fs
  THEN RemovePath(st.assets, image_rel_path.s)
  ELSE st.assets

\* delete_album with the answer to the confirmation.
delete_album(st, confirm, io) ==
  LET b == st.selected_band.s
      a == st.selected_album.s
  IN IF ~(Truthy(st.selected_band) /\ Truthy(st.selected_album))
     THEN [st EXCEPT !.last = Op("delete_album", "noselection", <<>>, <<>>, 0)]
     ELSE IF b \notin Bands(st.data)
     THEN [st EXCEPT !.last = Op("delete_album", "notfound", a, <<>>, 0)]
     ELSE IF ~confirm
     THEN [st EXCEPT !.last = Op("delete_album", "declined", a, <<>>, 0)]
     ELSE IF a \notin Albums(st.data, b)
     THEN [st EXCEPT !.last = Op("delete_album", "keyerror", a, <<>>, 0)]
     ELSE refresh_albums(
            save_data(
              [st EXCEPT !.assets = RemoveAlbumImage(st, Image(st.data, b, a), io),
                         !.data.bands[b].albums = Del(@, a),
                         !.last = Op("delete_album", "ok", a, <<>>, 0)],
              io),
            st.selected_band)

(***************************************************************************)
(* Image assets.                                                           *)
(***************************************************************************)
\* re.sub(r'[<>:"/\\|?*]', '', name).replace(' ', '_')
Sanitize(name) ==
  LET kept == SelectSeq(name, LAMBDA c : c \notin ForbiddenChars)
  IN [i \in 1..Len(kept) |-> IF kept[i] = " " THEN "_" ELSE kept[i]]

\* str.lower() of one character.
LowerChar(c) ==
  CASE c = "J" -> "j"
    [] c = "P" -> "p"
    [] c = "G" -> "g"
    [] c = "E" -> "e"
    [] c = "N" -> "n"
    [] OTHER -> c

Lower(s) == [i \in 1..Len(s) |-> LowerChar(s[i])]

\* ['.jpg', '.jpeg', '.png']
AllowedExts == {<<".", "j", "p", "g">>,
                <<".", "j", "p", "e", "g">>,
                <<".", "p", "n", "g">>}

Digit(d) ==
  CASE d = 0 -> "0" [] d = 1 -> "1" [] d = 2 -> "2" [] d = 3 -> "3"
    [] d = 4 -> "4" [] d = 5 -> "5" [] d = 6 -> "6" [] d = 7 -> "7"
    [] d = 8 -> "8" [] d = 9 -> "9"

\* str(counter)
RECURSIVE Decimal(_)
Decimal(n) ==
  IF n < 10 THEN <<Digit(n)>> ELSE Decimal(n \div 10) \o <<Digit(n % 10)>>

\* f"{sanitized_album_name}_{counter}{ext}"
Suffixed(base, counter, ext) == base \o <<"_">> \o Decimal(counter) \o ext

\* An if in place of the while: the first suffixed name is taken as it is.
NextFree_once(fs, base, ext, counter) == Suffixed(base, counter, ext)

\* The while loop of associate_image from the value counter on.
RECURSIVE NextFree(_, _, _, _)
NextFree(fs, base, ext, counter) ==
  IF Suffixed(base, counter, ext) \in fs
  THEN NextFree(fs, base, ext, counter + 1)
  ELSE Suffixed(base, counter, ext)

\* The destination without the test that the file exists.
dest_path_overwrite(fs, base, ext) == base \o ext

\* dest_path of associate_image, as a file name of IMAGES_DIR.
dest_path(fs, base, ext) ==
  IF (base \o ext) \in fs THEN NextFree(fs, base, ext, 1) ELSE base \o ext

\* associate_image with the file chosen in the dialog: src.chosen is false
\* when the dialog is cancelled, src.image tells whether Image.open accepts
\* the file, src.ext is the extension of its name.
associate_image(st, src, io) ==
  LET b == st.selected_band.s
      a == st.selected_album.s
      ext == Lower(src.ext)
      dest == dest_path(st.assets, Sanitize(a), ext)
      decodable == IF src.image THEN 1 ELSE 0
  IN IF ~(Truthy(st.selected_band) /\ Truthy(st.selected_album))
     THEN [st EXCEPT !.last = Op("associate_image", "noselection", <<>>, <<>>, 0)]
     ELSE IF ~src.chosen
     THEN [st EXCEPT !.last = Op("associate_image", "cancel", <<>>, <<>>, 0)]
     ELSE IF ~src.image
     THEN [st EXCEPT !.last = Op("associate_image", "notimage", src.ext, <<>>, decodable)]
     ELSE IF ext \notin AllowedExts
     THEN [st EXCEPT !.last = Op("associate_image", "badtype", src.ext, <<>>, decodable)]
     ELSE IF ~io.fs
     THEN [st EXCEPT !.last = Op("associate_image", "copyfail", src.ext, dest, decodable)]
     ELSE IF b \notin Bands(st.data) \/ a \notin Albums(st.data, b)
     THEN [st EXCEPT !.assets = @ \cup {dest},
                     !.last = Op("associate_image", "keyerror", src.ext, dest, decodable)]
     ELSE [save_data(
             [st EXCEPT !.assets = @ \cup {dest},
                        !.data = SetImage(@, b, a, Some(RelPath(dest))),
                        !.last = Op("associate_image", "ok", src.ext, dest, decodable)],
             io)
           EXCEPT !.remove_button = TRUE]

\* remove_image without the assignment of None to the image of the album.
remove_image_keepref(st, io) ==
  LET b == st.selected_band.s
      a == st.selected_album.s
  IN IF ~(Truthy(st.selected_band) /\ Truthy(st.selected_album))
     THEN [st EXCEPT !.last = Op("remove_image", "noselection", <<>>, <<>>, 0)]
     ELSE IF b \notin Bands(st.data) \/ a \notin Albums(st.data, b)
     THEN [st EXCEPT !.last = Op("remove_image", "keyerror", a, <<>>, 0)]
     ELSE [save_data(
             [st EXCEPT !.assets = RemoveAlbumImage(st, Image(st.data, b, a), io),
                        !.last = Op("remove_image", "ok", a,
                                    IF Truthy(Image(st.data, b, a))
                                    THEN Image(st.data, b, a).s ELSE <<>>, 0)],
             io)
           EXCEPT !.remove_button = FALSE]

\* remove_image
remove_image(st, io) ==
  LET b == st.selected_band.s
      a == st.selected_album.s
  IN IF ~(Truthy(st.selected_band) /\ Truthy(st.selected_album))
     THEN [st EXCEPT !.last = Op("remove_image", "noselection", <<>>, <<>>, 0)]
     ELSE IF b \notin Bands(st.data) \/ a \notin Albums(st.data, b)
     THEN [st EXCEPT !.last = Op("remove_image", "keyerror", a, <<>>, 0)]
     ELSE [save_data(
             [st EXCEPT !.assets = RemoveAlbumImage(st, Image(st.data, b, a), io),
                        !.data = SetImage(@, b, a, None),
                        !.last = Op("remove_image", "ok", a,
                                    IF Truthy(Image(st.data, b, a))
                                    THEN Image(st.data, b, a).s ELSE <<>>, 0)],
             io)
           EXCEPT !.remove_button = FALSE]

(***************************************************************************)
(* Text export and import.                                                 *)
(***************************************************************************)
\* The lines of one band, for its albums in the order given.
RECURSIVE BandLines(_, _)
BandLines(band, albums) ==
  IF albums = <<>> THEN <<>>
  ELSE <<band \o Sep \o Head(albums)>> \o BandLines(band, Tail(albums))

\* The lines list of export_collection, for the bands in the order given.
RECURSIVE ExportLines(_, _)
ExportLines(d, bands) ==
  IF bands = <<>> THEN <<>>
  ELSE BandLines(Head(bands), Sorted(Albums(d, Head(bands))))
       \o ExportLines(d, Tail(bands))

\* The text that export_collection writes to EXPORT_FILE.
ExportText(d) == Join(ExportLines(d, Sorted(Bands(d))))

\* export_collection
export_collection(st, io) ==
  IF io.fs
  THEN [st EXCEPT !.last = Op("export", "ok", ExportText(st.data), <<>>, 0)]
  ELSE [st EXCEPT !.last = Op("export", "error", <<>>, <<>>, 0)]

\* The body of the loop without the test that the album exists.
ImportLine_overwrite(acc, raw) ==
  LET line == Strip(raw)
      parts == Split(line, Sep)
      band_name == Strip(parts[1])
      album_name == Strip(parts[2])
      withBand == IF band_name \in Bands(acc.data)
                  THEN acc.data
                  ELSE [acc.data EXCEPT !.bands = Put(@, band_name, [albums |-> EmptyMap])]
  IN IF line = <<>> THEN acc
     ELSE IF ~Contains(line, Sep) THEN acc
     ELSE IF Len(parts) # 2 THEN acc
     ELSE IF band_name = <<>> \/ album_name = <<>> THEN acc
     ELSE [data |-> [withBand EXCEPT !.bands[band_name].albums =
                                        Put(@, album_name, [image |-> None])],
           count |-> acc.count + 1]

\* The body of the loop of import_collection for one line; acc holds the
\* catalog and added_count.
ImportLine(acc, raw) ==
  LET line == Strip(raw)
      parts == Split(line, Sep)
      band_name == Strip(parts[1])
      album_name == Strip(parts[2])
      withBand == IF band_name \in Bands(acc.data)
                  THEN acc.data
                  ELSE [acc.data EXCEPT !.bands = Put(@, band_name, [albums |-> EmptyMap])]
  IN IF line = <<>> THEN acc
     ELSE IF ~Contains(line, Sep) THEN acc
     ELSE IF Len(parts) # 2 THEN acc
     ELSE IF band_name = <<>> \/ album_name = <<>> THEN acc
     ELSE IF album_name \in Albums(withBand, band_name)
     THEN [acc EXCEPT !.data = withBand]
     ELSE [data |-> [withBand EXCEPT !.bands[band_name].albums =
                                        Put(@, album_name, [image |-> None])],
           count |-> acc.count + 1]

\* The loop of import_collection.
RECURSIVE ImportLines(_, _)
ImportLines(acc, lines) ==
  IF lines = <<>> THEN acc
  ELSE ImportLines(ImportLine(acc, Head(lines)), Tail(lines))

\* import_collection with the file chosen in the dialog: src.chosen is false
\* when the dialog is cancelled, src.text is the content of the file.
import_collection(st, src, io) ==
  LET r == ImportLines([data |-> st.data, count |-> 0], ReadLines(src.text))
  IN IF ~src.chosen
     THEN [st EXCEPT !.last = Op("import", "cancel", <<>>, <<>>, 0)]
     ELSE IF ~io.read
     THEN [st EXCEPT !.last = Op("import", "error", <<>>, <<>>, 0)]
     ELSE refresh_bands(
            save_data(
              [st EXCEPT !.data = r.data,
                         !.last = Op("import", "ok", src.text, <<>>, r.count)],
              io))

(***************************************************************************)
(* Start and end of the application.                                       *)
(***************************************************************************)
\* __init__: the empty catalog, no selection, load_data, setup_gui (the
\* buttons disabled, IMAGES_DIR created if missing), refresh_bands.
init(st, io) ==
  refresh_bands(
    load_data(
      [st EXCEPT !.data = EmptyData,
                 !.selected_band = None,
                 !.selected_album = None],
      io))

\* on_closing: save_data, then root.destroy() ends the main loop and the
\* process, so the catalog in memory and the widgets are gone.
on_closing(st, io) ==
  [save_data([st EXCEPT !.last = Op("on_closing", "ok", <<>>, <<>>, 0)], io)
   EXCEPT !.data = EmptyData,
          !.selected_band = None,
          !.selected_album = None,
          !.band_listbox = <<>>,
          !.album_listbox = <<>>,
          !.remove_button = FALSE]

(***************************************************************************)
(* What the user enters.                                                   *)
(***************************************************************************)
\* Texts typed in the dialog of add_band.
BandTyped == {<<"a">>, <<"b", " ">>, <<"a", "/">>}

\* Texts typed in the dialog of add_album.
AlbumTyped == {<<" ", "x">>, <<"x", "?">>}

\* Files offered to associate_image.
JpgExt == <<".", "j", "p", "g">>

ImageSources == {[chosen |-> FALSE, image |-> FALSE, ext |-> <<>>],
                 [chosen |-> TRUE, image |-> TRUE, ext |-> <<".", "J", "P", "G">>],
                 [chosen |-> TRUE, image |-> TRUE, ext |-> <<".", "g", "i", "f">>],
                 [chosen |-> TRUE, image |-> FALSE, ext |-> JpgExt]}

OnlyOnePart == <<"O", "n", "l", "y", "O", "n", "e", "P", "a", "r", "t">>

\* Files offered to import_collection.
ImportTexts == {OnlyOnePart,
                <<"a", " ", "-", " ", "x", "\n">> \o OnlyOnePart
                   \o <<"\n", "a", " ", "-", " ", "x", "/">>,
                <<"a", " ", "-", " ", "b", " ", "-", " ", "c">>,
                <<" ", "a", " ", " ", "-", " ", " ", "x", " ", "\n", "\n">>}

ImportSources == {[chosen |-> FALSE, text |-> <<>>]}
                 \cup {[chosen |-> TRUE, text |-> t] : t \in ImportTexts}

\* The inventory file and the image directory when the application is
\* first started: no file, an unparseable file, a legacy document whose
\* album has the image "".
LegacyDoc ==
  [bands |-> [b \in {<<"a">>} |->
     [albums |-> [al \in {<<"x">>} |-> [image |-> Some(<<>>)]]]]]

InitialStores == {[file |-> AbsentFile, assets |-> {}],
                  [file |-> CorruptFile, assets |-> {}],
                  [file |-> DocFile(LegacyDoc), assets |-> {}]}

(***************************************************************************)
(* The state machine.                                                      *)
(***************************************************************************)
Apply(r) ==
  /\ data' = r.data
  /\ file' = r.file
  /\ assets' = r.assets
  /\ selected_band' = r.selected_band
  /\ selected_album' = r.selected_album
  /\ band_listbox' = r.band_listbox
  /\ album_listbox' = r.album_listbox
  /\ remove_button' = r.remove_button
  /\ last' = r.last

\* The catalog and the image directory stay within the bounds.
WithinBounds(r) ==
  /\ Cardinality(Bands(r.data)) <= MaxBands
  /\ \A b \in Bands(r.data) : Cardinality(Albums(r.data, b)) <= MaxAlbums
  /\ Cardinality(r.assets) <= MaxFiles

Init ==
  /\ \E store \in InitialStores : file = store.file /\ assets = store.assets
  /\ data = EmptyData
  /\ selected_band = None
  /\ selected_album = None
  /\ band_listbox = <<>>
  /\ album_listbox = <<>>
  /\ remove_button = FALSE
  /\ phase = "off"
  /\ last = Op("none", "ok", <<>>, <<>>, 0)

\* The state of the buttons: delete_band_button and add_album_button are
\* enabled by on_band_select and disabled by refresh_bands, where
\* selected_band is set and cleared; delete_album_button and
\* associate_image_button are enabled by on_album_select and disabled by
\* refresh_albums and refresh_bands, where selected_album is set and cleared.
band_buttons == Truthy(selected_band)

album_buttons == Truthy(selected_album)

Launch ==
  /\ phase = "off"
  /\ Apply(init(St, IOok))
  /\ phase' = "running"

Close ==
  /\ phase = "running"
  /\ Apply(on_closing(St, IOok))
  /\ phase' = "off"

SelectBand ==
  /\ phase = "running"
  /\ \E idx \in 0..Len(band_listbox) :
       Apply([on_band_select(St, idx) EXCEPT
                !.last = Op("on_band_select", "ok", <<>>, <<>>, 0)])
  /\ UNCHANGED phase

SelectAlbum ==
  /\ phase = "running"
  /\ \E idx \in 0..Len(album_listbox) :
       Apply([on_album_select(St, idx) EXCEPT
                !.last = Op("on_album_select", "ok", <<>>, <<>>, 0)])
  /\ UNCHANGED phase

AddBand ==
  /\ phase = "running"
  /\ \E typed \in BandTyped :
       LET r == add_band(St, typed, IOok)
       IN WithinBounds(r) /\ Apply(r)
  /\ UNCHANGED phase

DeleteBand ==
  /\ phase = "running"
  /\ band_buttons
  /\ \E confirm \in BOOLEAN :
       Apply(delete_band(St, confirm, IOok))
  /\ UNCHANGED phase

AddAlbum ==
  /\ phase = "running"
  /\ band_buttons
  /\ \E typed \in AlbumTyped :
       LET r == add_album(St, typed, IOok)
       IN WithinBounds(r) /\ Apply(r)
  /\ UNCHANGED phase

DeleteAlbum ==
  /\ phase = "running"
  /\ album_buttons
  /\ \E confirm \in BOOLEAN :
       Apply(delete_album(St, confirm, IOok))
  /\ UNCHANGED phase

AssociateImage ==
  /\ phase = "running"
  /\ album_buttons
  /\ \E src \in ImageSources :
       LET r == associate_image(St, src, IOok)
       IN WithinBounds(r) /\ Apply(r)
  /\ UNCHANGED phase

RemoveImage ==
  /\ phase = "running"
  /\ remove_button
  /\ Apply(remove_image(St, IOok))
  /\ UNCHANGED phase

Export ==
  /\ phase = "running"
  /\ Apply(export_collection(St, IOok))
  /\ UNCHANGED phase

Import ==
  /\ phase = "running"
  /\ \E src \in ImportSources :
       LET r == import_collection(St, src, IOok)
       IN WithinBounds(r) /\ Apply(r)
  /\ UNCHANGED phase

Next ==
  \/ Launch
  \/ Close
  \/ SelectBand
  \/ SelectAlbum
  \/ AddBand
  \/ DeleteBand
  \/ AddAlbum
  \/ DeleteAlbum
  \/ AssociateImage
  \/ RemoveImage
  \/ Export
  \/ Import

Spec == Init /\ [][Next]_vars

(***************************************************************************)
(* The dialogs of add_band and add_album on many texts: each text is typed *)
(* once, into the application as it is after the first band was added.     *)
(***************************************************************************)
MaxTyped == 3

\* The state after the start without an inventory file.
FreshStart ==
  init([data |-> EmptyData, file |-> AbsentFile, assets |-> {},
        selected_band |-> None, selected_album |-> None,
        band_listbox |-> <<>>, album_listbox |-> <<>>,
        remove_button |-> FALSE, last |-> Op("none", "ok", <<>>, <<>>, 0)],
       IOok)

Start(r) ==
  /\ data = r.data
  /\ file = r.file
  /\ assets = r.assets
  /\ selected_band = r.selected_band
  /\ selected_album = r.selected_album
  /\ band_listbox = r.band_listbox
  /\ album_listbox = r.album_listbox
  /\ remove_button = r.remove_button
  /\ last = r.last
  /\ phase = "running"

\* The texts of at most n characters over the characters of S.
RECURSIVE Texts(_, _)
Texts(S, n) ==
  IF n = 0 THEN {<<>>}
  ELSE Texts(S, n - 1)
       \cup {Append(t, c) : t \in {u \in Texts(S, n - 1) : Len(u) = n - 1}, c \in S}

\* Short texts, one text for each forbidden character, and texts of about
\* 100 characters with and without blanks around them.
NamesTyped ==
  Texts({"q", " ", "/"}, MaxTyped)
  \cup {<<"q", c>> : c \in ForbiddenChars}
  \cup {Rep("q", n) : n \in (MaxNameLen - 2)..(MaxNameLen + 2)}
  \cup {<<" ">> \o Rep("q", n) : n \in (MaxNameLen - 2)..(MaxNameLen + 1)}
  \cup {Rep("q", n) \o <<" ">> : n \in (MaxNameLen - 2)..(MaxNameLen + 1)}
  \cup {Rep("q", MaxNameLen - 1) \o <<c>> : c \in {"/", " ", "\t"}}
  \cup {Rep(" ", n) : n \in (MaxNameLen - 1)..(MaxNameLen + 1)}

InitNames == Start(add_band(FreshStart, <<"a">>, IOok))

TypeBand ==
  /\ last.op = "add_band" /\ last.arg = <<"a">>
  /\ \E typed \in NamesTyped : Apply(add_band(St, typed, IOok))
  /\ UNCHANGED phase

TypeAlbum ==
  /\ last.op = "add_band" /\ last.arg = <<"a">>
  /\ band_buttons
  /\ \E typed \in NamesTyped : Apply(add_album(St, typed, IOok))
  /\ UNCHANGED phase

NextNames == TypeBand \/ TypeAlbum

SpecNames == InitNames /\ [][NextNames]_vars

(***************************************************************************)
(* The text export and import on catalogs with more names: bands and       *)
(* albums are added by the dialogs and by import, and the catalog is       *)
(* exported.                                                               *)
(***************************************************************************)
TextBandTyped == {<<"a">>, <<"b", " ", "-">>, <<"c">>}

TextAlbumTyped == {<<"x">>, <<"x", " ", "-", " ", "y">>}

TextImportSources ==
  {[chosen |-> TRUE,
    text |-> <<"c", " ", "-", " ", "x", "\n", "\n", "a", " ", "-", " ", "x",
               " ", "-", " ", "y", "\n", "c", " ", "-", " ", "x", "\n">>]}

InitText == Start(FreshStart)

TextAddBand ==
  /\ \E typed \in TextBandTyped :
       LET r == add_band(St, typed, IOok)
       IN WithinBounds(r) /\ Apply(r)
  /\ UNCHANGED phase

TextAddAlbum ==
  /\ band_buttons
  /\ \E typed \in TextAlbumTyped :
       LET r == add_album(St, typed, IOok)
       IN WithinBounds(r) /\ Apply(r)
  /\ UNCHANGED phase

TextImport ==
  /\ \E src \in TextImportSources :
       LET r == import_collection(St, src, IOok)
       IN WithinBounds(r) /\ Apply(r)
  /\ UNCHANGED phase

NextText ==
  \/ SelectBand
  \/ TextAddBand
  \/ TextAddAlbum
  \/ TextImport
  \/ Export

SpecText == InitText /\ [][NextText]_vars

(***************************************************************************)
(* associate_image, delete_album and remove_image statement by statement:  *)
(* each is cut at its file operation, at its assignment to self.data and   *)
(* at its save_data.  The variable phase holds the position inside the     *)
(* handler; "running" is the main loop between two handlers.               *)
(***************************************************************************)
\* associate_image with the reference set before the file is copied.
associate_image_copy_late(st, src, io) ==
  LET b == st.selected_band.s
      a == st.selected_album.s
      ext == Lower(src.ext)
      dest == dest_path(st.assets, Sanitize(a), ext)
  IN IF ~(Truthy(st.selected_band) /\ Truthy(st.selected_album))
     THEN [st EXCEPT !.last = Op("associate_image", "noselection", <<>>, <<>>, 0)]
     ELSE IF ~src.chosen
     THEN [st EXCEPT !.last = Op("associate_image", "cancel", <<>>, <<>>, 0)]
     ELSE IF ~src.image
     THEN [st EXCEPT !.last = Op("associate_image", "notimage", src.ext, <<>>, 0)]
     ELSE IF ext \notin AllowedExts
     THEN [st EXCEPT !.last = Op("associate_image", "badtype", src.ext, <<>>, 1)]
     ELSE [st EXCEPT !.data = SetImage(@, b, a, Some(RelPath(dest))),
                     !.last = Op("associate_image", "copied", src.ext, dest, 1)]

\* associate_image up to and with shutil.copy.
associate_image_copy(st, src, io) ==
  LET a == st.selected_album.s
      ext == Lower(src.ext)
      dest == dest_path(st.assets, Sanitize(a), ext)
  IN IF ~(Truthy(st.selected_band) /\ Truthy(st.selected_album))
     THEN [st EXCEPT !.last = Op("associate_image", "noselection", <<>>, <<>>, 0)]
     ELSE IF ~src.chosen
     THEN [st EXCEPT !.last = Op("associate_image", "cancel", <<>>, <<>>, 0)]
     ELSE IF ~src.image
     THEN [st EXCEPT !.last = Op("associate_image", "notimage", src.ext, <<>>, 0)]
     ELSE IF ext \notin AllowedExts
     THEN [st EXCEPT !.last = Op("associate_image", "badtype", src.ext, <<>>, 1)]
     ELSE IF ~io.fs
     THEN [st EXCEPT !.last = Op("associate_image", "copyfail", src.ext, dest, 1)]
     ELSE [st EXCEPT !.assets = @ \cup {dest},
                     !.last = Op("associate_image", "copied", src.ext, dest, 1)]

\* The assignment of final_rel_path to the image of the album.
associate_image_set(st) ==
  LET b == st.selected_band.s
      a == st.selected_album.s
  IN IF b \notin Bands(st.data) \/ a \notin Albums(st.data, b)
     THEN [st EXCEPT !.last.res = "keyerror"]
     ELSE [st EXCEPT !.data = SetImage(@, b, a, Some(RelPath(st.last.dest))),
                     !.last.res = "set"]

\* save_data, show_image and the remove button of associate_image.
associate_image_saved(st, io) ==
  [save_data([st EXCEPT !.last.res = "ok"], io) EXCEPT !.remove_button = TRUE]

\* delete_album up to and with os.remove.
delete_album_remove(st, confirm, io) ==
  LET b == st.selected_band.s
      a == st.selected_album.s
      image_rel_path == IF a \in Albums(st.data, b)
                        THEN Image(st.data, b, a)
                        ELSE None
  IN IF ~(Truthy(st.selected_band) /\ Truthy(st.selected_album))
     THEN [st EXCEPT !.last = Op("delete_album", "noselection", <<>>, <<>>, 0)]
     ELSE IF b \notin Bands(st.data)
     THEN [st EXCEPT !.last = Op("delete_album", "notfound", a, <<>>, 0)]
     ELSE IF ~confirm
     THEN [st EXCEPT !.last = Op("delete_album", "declined", a, <<>>, 0)]
     ELSE [st EXCEPT !.assets = RemoveAlbumImage(st, image_rel_path, io),
                     !.last = Op("delete_album", "removed", a, <<>>, 0)]

\* The del statement of delete_album.
delete_album_del(st) ==
  LET b == st.selected_band.s
      a == st.selected_album.s
  IN IF a \notin Albums(st.data, b)
     THEN [st EXCEPT !.last.res = "keyerror"]
     ELSE [st EXCEPT !.data.bands[b].albums = Del(@, a),
                     !.last.res = "deleted"]

\* save_data and refresh_albums of delete_album.
delete_album_saved(st, io) ==
  refresh_albums(save_data([st EXCEPT !.last.res = "ok"], io), st.selected_band)

\* remove_image up to and with os.remove.
remove_image_remove(st, io) ==
  LET b == st.selected_band.s
      a == st.selected_album.s
      image_rel_path == IF a \in Albums(st.data, b)
                        THEN Image(st.data, b, a)
                        ELSE None
  IN IF ~(Truthy(st.selected_band) /\ Truthy(st.selected_album))
     THEN [st EXCEPT !.last = Op("remove_image", "noselection", <<>>, <<>>, 0)]
     ELSE IF b \notin Bands(st.data)
     THEN [st EXCEPT !.last = Op("remove_image", "keyerror", a, <<>>, 0)]
     ELSE [st EXCEPT !.assets = RemoveAlbumImage(st, image_rel_path, io),
                     !.last = Op("remove_image", "removed", a,
                                 IF Truthy(image_rel_path)
                                 THEN image_rel_path.s ELSE <<>>, 0)]

\* The assignment of None to the image of the album.
remove_image_clear(st) ==
  LET b == st.selected_band.s
      a == st.selected_album.s
  IN IF a \notin Albums(st.data, b)
     THEN [st EXCEPT !.last = Op("remove_image", "keyerror", a, <<>>, 0)]
     ELSE [st EXCEPT !.data = SetImage(@, b, a, None),
                     !.last.res = "cleared"]

\* save_data and the remove button of remove_image.
remove_image_saved(st, io) ==
  [save_data([st EXCEPT !.last.res = "ok"], io) EXCEPT !.remove_button = FALSE]

\* The position after a statement: inside the handler op when the
\* statement ended with res, else back in the main loop.
After(r, res, pos) == IF r.last.res = res THEN pos ELSE "running"

AssociateCopy ==
  /\ phase = "running"
  /\ album_buttons
  /\ \E src \in ImageSources :
       LET r == associate_image_copy(St, src, IOok)
       IN /\ WithinBounds(r)
          /\ Apply(r)
          /\ phase' = After(r, "copied", "associate_image_set")

AssociateSet ==
  /\ phase = "associate_image_set"
  /\ LET r == associate_image_set(St)
     IN Apply(r) /\ phase' = After(r, "set", "associate_image_save")

AssociateSave ==
  /\ phase = "associate_image_save"
  /\ Apply(associate_image_saved(St, IOok))
  /\ phase' = "running"

DeleteAlbumRemove ==
  /\ phase = "running"
  /\ album_buttons
  /\ \E confirm \in BOOLEAN :
       LET r == delete_album_remove(St, confirm, IOok)
       IN Apply(r) /\ phase' = After(r, "removed", "delete_album_del")

DeleteAlbumDel ==
  /\ phase = "delete_album_del"
  /\ LET r == delete_album_del(St)
     IN Apply(r) /\ phase' = After(r, "deleted", "delete_album_save")

DeleteAlbumSave ==
  /\ phase = "delete_album_save"
  /\ Apply(delete_album_saved(St, IOok))
  /\ phase' = "running"

RemoveImageRemove ==
  /\ phase = "running"
  /\ remove_button
  /\ LET r == remove_image_remove(St, IOok)
     IN Apply(r) /\ phase' = After(r, "removed", "remove_image_clear")

RemoveImageClear ==
  /\ phase = "remove_image_clear"
  /\ LET r == remove_image_clear(St)
     IN Apply(r) /\ phase' = After(r, "cleared", "remove_image_save")

RemoveImageSave ==
  /\ phase = "remove_image_save"
  /\ Apply(remove_image_saved(St, IOok))
  /\ phase' = "running"

InitSteps == Start(FreshStart)

NextSteps ==
  \/ SelectBand
  \/ SelectAlbum
  \/ AddBand
  \/ AddAlbum
  \/ Import
  \/ AssociateCopy
  \/ AssociateSet
  \/ AssociateSave
  \/ DeleteAlbumRemove
  \/ DeleteAlbumDel
  \/ DeleteAlbumSave
  \/ RemoveImageRemove
  \/ RemoveImageClear
  \/ RemoveImageSave

SpecSteps == InitSteps /\ [][NextSteps]_vars

(***************************************************************************)
(* The catalog and the image directory from an empty start, without        *)
(* delete_band.                                                            *)
(***************************************************************************)
InitAssets == Start(FreshStart)

NextAssets ==
  \/ SelectBand
  \/ SelectAlbum
  \/ AddBand
  \/ AddAlbum
  \/ DeleteAlbum
  \/ AssociateImage
  \/ RemoveImage
  \/ Import

SpecAssets == InitAssets /\ [][NextAssets]_vars

\* The statements of a handler, run one after the other, leave the state
\* that the handler as a whole leaves.
StepsAgree ==
  phase = "running" =>
  /\ \A src \in ImageSources :
       LET r == associate_image_copy(St, src, IOok)
       IN associate_image(St, src, IOok) =
            IF r.last.res = "copied"
            THEN associate_image_saved(associate_image_set(r), IOok)
            ELSE r
  /\ \A confirm \in BOOLEAN :
       LET r == delete_album_remove(St, confirm, IOok)
       IN delete_album(St, confirm, IOok) =
            IF r.last.res = "removed"
            THEN delete_album_saved(delete_album_del(r), IOok)
            ELSE r
  /\ LET r == remove_image_remove(St, IOok)
     IN remove_image(St, IOok) =
          IF r.last.res = "removed"
          THEN remove_image_saved(remove_image_clear(r), IOok)
          ELSE r

(***************************************************************************)
(* Properties.                                                             *)
(***************************************************************************)
\* The catalog, the inventory file and the image directory are left as
\* they were.
StoreUnchanged == data' = data /\ file' = file /\ assets' = assets

\* C1: after a confirmed delete_band of a band, the band and its albums are
\* no longer in the catalog, and no file that one of its albums referred to
\* is left in the image directory.
C1_DeleteBandRemovesAssets ==
  [][(last'.op = "delete_band" /\ last'.res = "ok" /\ last'.arg \in Bands(data))
       => LET b == last'.arg
          IN /\ b \notin Bands(data')
             /\ \A a \in Albums(data, b) :
                  Truthy(Image(data, b, a))
                    => ~PathExists(assets', Image(data, b, a).s)]_vars

\* import_collection of a text into the application as it starts without
\* an inventory file.
Reimport(text) ==
  import_collection(FreshStart, [chosen |-> TRUE, text |-> text], IOok)

SameBandsAndAlbums(d, e) ==
  /\ Bands(d) = Bands(e)
  /\ \A b \in Bands(d) : Albums(d, b) = Albums(e, b)

RoundTrip ==
  /\ SameBandsAndAlbums(data, Reimport(last.arg).data)
  /\ Reimport(last.arg).last.count = TotalAlbums(data)

\* C2 as stated: the text exported from any catalog, imported into a fresh
\* empty catalog, gives the same bands and albums, and import counts as
\* many new albums as the catalog has.
C2_RoundTripAny ==
  (last.op = "export" /\ last.res = "ok") => RoundTrip

\* A name that a line of the text format carries unchanged: not empty, no
\* blank at either end, no line break and no separator in it.
PlainName(n) ==
  /\ n # <<>>
  /\ Strip(n) = n
  /\ ~Contains(n, Sep)
  /\ \A i \in 1..Len(n) : n[i] \notin {"\n", "\r"}

EndsWith(s, t) ==
  Len(s) >= Len(t) /\ SubSeq(s, Len(s) - Len(t) + 1, Len(s)) = t

RoundTripSafe(d) ==
  \A b \in Bands(d) :
    /\ Albums(d, b) # {}
    /\ PlainName(b)
    /\ ~EndsWith(b, <<" ", "-">>)
    /\ \A a \in Albums(d, b) : PlainName(a)

\* C2, amended: when every band has at least one album, every name is
\* plain and no band name ends in " -", the text exported from the catalog,
\* imported into a fresh empty catalog, gives the same bands and albums, and
\* import counts as many new albums as the catalog has.
C2_RoundTripSafe ==
  (last.op = "export" /\ last.res = "ok" /\ RoundTripSafe(data)) => RoundTrip

C2_Witness ==
  /\ last.op = "export"
  /\ last.res = "ok"
  /\ RoundTripSafe(data)
  /\ Cardinality(Bands(data)) = 2
  /\ TotalAlbums(data) = 2

\* The name that the last add_band or add_album was given is in the
\* catalog: as a band, or as an album of the band "a".
TypedNameAdded ==
  IF last.op = "add_band"
  THEN Strip(last.arg) \in Bands(data)
  ELSE Strip(last.arg) \in Albums(data, <<"a">>)

\* The names of C3 as stated: the trimmed name is not empty, has at most
\* 100 characters and no forbidden character.
TrimmedNameValid(typed) ==
  /\ Strip(typed) # <<>>
  /\ Len(Strip(typed)) <= MaxNameLen
  /\ \A i \in 1..Len(Strip(typed)) : Strip(typed)[i] \notin ForbiddenChars

\* C3 as stated: add_band and add_album add the name exactly when the
\* trimmed name is valid.
C3_AcceptsTrimmedValid ==
  last.op \in {"add_band", "add_album"}
    => (TypedNameAdded <=> TrimmedNameValid(last.arg))

\* The names of C3, amended: the text as typed has at most 100 characters
\* and no forbidden character, and is not empty once trimmed.
TypedNameValid(typed) ==
  /\ Strip(typed) # <<>>
  /\ Len(typed) <= MaxNameLen
  /\ \A i \in 1..Len(typed) : typed[i] \notin ForbiddenChars

\* C3, amended: add_band and add_album add the trimmed name exactly when
\* the text as typed is valid.
C3_AcceptsTypedValid ==
  last.op \in {"add_band", "add_album"}
    => (TypedNameAdded <=> TypedNameValid(last.arg))

C3_Witness ==
  /\ last.op = "add_album"
  /\ Len(last.arg) = MaxNameLen
  /\ last.arg \in Albums(data, <<"a">>)

\* C4: an add_band with an invalid name or the name of an existing band, an
\* add_album with an invalid name or the name of an album of the band, and
\* an associate_image with a file that is no image or whose extension is
\* not allowed leave the catalog, the inventory file and the image
\* directory as they were.
C4_RejectedKeepsState ==
  [][/\ (/\ last'.op = "add_band"
          /\ (~TypedNameValid(last'.arg) \/ Strip(last'.arg) \in Bands(data)))
        => StoreUnchanged
     /\ (/\ last'.op = "add_album"
          /\ Truthy(selected_band)
          /\ selected_band.s \in Bands(data)
          /\ (\/ ~TypedNameValid(last'.arg)
              \/ Strip(last'.arg) \in Albums(data, selected_band.s)))
        => StoreUnchanged
     /\ (/\ last'.op = "associate_image"
          /\ (last'.count = 0 \/ Lower(last'.arg) \notin AllowedExts))
        => StoreUnchanged]_vars

C4_Witness ==
  /\ last.op = "add_album"
  /\ last.res = "exists"
  /\ Truthy(selected_band)
  /\ selected_band.s \in Bands(data)
  /\ Strip(last.arg) \in Albums(data, selected_band.s)
  /\ Truthy(Image(data, selected_band.s, Strip(last.arg)))

\* C5: remove_image on an album leaves the album in its band with no image
\* reference, and the file that the reference named is no longer in the
\* image directory.
C5_RemoveImage ==
  [][(/\ last'.op = "remove_image"
      /\ Truthy(selected_band) /\ Truthy(selected_album)
      /\ selected_band.s \in Bands(data)
      /\ selected_album.s \in Albums(data, selected_band.s))
       => LET b == selected_band.s
              a == selected_album.s
          IN /\ b \in Bands(data')
             /\ a \in Albums(data', b)
             /\ Image(data', b, a) = None
             /\ Truthy(Image(data, b, a))
                  => ~PathExists(assets', Image(data, b, a).s)]_vars

C5_Witness ==
  /\ last.op = "remove_image"
  /\ last.res = "ok"
  /\ last.dest # <<>>
  /\ Tail(last.dest) \notin assets
  /\ Image(data, selected_band.s, selected_album.s) = None

\* The albums of a catalog, as pairs of band and album.
AlbumsOf(d) == UNION {{<<b, a>> : a \in Albums(d, b)} : b \in Bands(d)}

\* C6: associate_image of a decodable image with an allowed extension
\* writes a file that was not in the image directory and changes no other
\* file: the sanitized album name with the extension when that name is
\* free, else the name with the suffix _k for the least k >= 1 that is free;
\* the album then refers to that file and no other album does.
C6_FreeDestination ==
  [][(/\ last'.op = "associate_image"
      /\ last'.count = 1
      /\ Lower(last'.arg) \in AllowedExts
      /\ Truthy(selected_band) /\ Truthy(selected_album)
      /\ selected_band.s \in Bands(data)
      /\ selected_album.s \in Albums(data, selected_band.s))
       => LET b == selected_band.s
              a == selected_album.s
              base == Sanitize(a)
              ext == Lower(last'.arg)
              d == last'.dest
          IN /\ d \notin assets
             /\ assets' = assets \cup {d}
             /\ \/ d = base \o ext
                \/ /\ (base \o ext) \in assets
                   /\ \E k \in 1..(Cardinality(assets) + 1) :
                        /\ d = Suffixed(base, k, ext)
                        /\ \A j \in 1..(k - 1) : Suffixed(base, j, ext) \in assets
             /\ Image(data', b, a) = Some(RelPath(d))
             /\ \A p \in AlbumsOf(data') \ {<<b, a>>} :
                  Image(data', p[1], p[2]) # Some(RelPath(d))]_vars

\* Two albums with the same sanitized name have their images: the first
\* under the plain name, the second, just associated, under the suffix _1.
C6_Witness ==
  /\ last.op = "associate_image"
  /\ last.res = "ok"
  /\ last.dest = Suffixed(Sanitize(selected_album.s), 1, JpgExt)
  /\ {Sanitize(selected_album.s) \o JpgExt, last.dest} \subseteq assets
  /\ Image(data, selected_band.s, selected_album.s) = Some(RelPath(last.dest))
  /\ \E p \in AlbumsOf(data) \ {<<selected_band.s, selected_album.s>>} :
       /\ Sanitize(p[2]) = Sanitize(selected_album.s)
       /\ Image(data, p[1], p[2]) = Some(RelPath(Sanitize(p[2]) \o JpgExt))

\* The pair of band and album that a line of a text gives: the line,
\* trimmed, splits at the separator into exactly two parts that are not
\* empty once trimmed.
LinePairs(raw) ==
  LET parts == Split(Strip(raw), Sep)
  IN IF Len(parts) = 2 /\ Strip(parts[1]) # <<>> /\ Strip(parts[2]) # <<>>
     THEN {<<Strip(parts[1]), Strip(parts[2])>>}
     ELSE {}

\* The pairs of band and album that the lines of a text give.
ValidPairs(text) ==
  LET lines == ReadLines(text)
  IN UNION {LinePairs(lines[i]) : i \in 1..Len(lines)}

\* C7: import_collection keeps every band and album with its image
\* reference, adds exactly the bands and albums of the valid lines that are
\* not yet in the catalog, each new album without image, adds nothing for
\* other lines, and counts the albums it added.
C7_ImportAddsOnly ==
  [][last'.op = "import"
       => LET pairs == ValidPairs(last'.arg)
          IN /\ \A p \in AlbumsOf(data) :
                  /\ p \in AlbumsOf(data')
                  /\ Image(data', p[1], p[2]) = Image(data, p[1], p[2])
             /\ Bands(data') = Bands(data) \cup {p[1] : p \in pairs}
             /\ AlbumsOf(data') = AlbumsOf(data) \cup pairs
             /\ \A p \in AlbumsOf(data') \ AlbumsOf(data) :
                  Image(data', p[1], p[2]) = None
             /\ last'.count = TotalAlbums(data') - TotalAlbums(data)
             /\ pairs = {} => (data' = data /\ last'.count = 0)]_vars

\* An import with a valid line for an album that has an image, a line
\* without separator and a valid line for a new album.
C7_Witness ==
  /\ last.op = "import"
  /\ last.res = "ok"
  /\ last.count = 1
  /\ Cardinality(ValidPairs(last.arg)) = 2
  /\ \E p \in ValidPairs(last.arg) : Truthy(Image(data, p[1], p[2]))

\* C8: while the application runs, after every operation the inventory
\* file holds the catalog in memory, and on_closing leaves in the file the
\* catalog that was in memory.
C8_FileHoldsCatalog ==
  [][/\ phase' = "running" => file' = DocFile(data')
     /\ last'.op = "on_closing" => file' = DocFile(data)]_vars

C8_Witness ==
  /\ phase = "running"
  /\ last.op = "delete_band"
  /\ last.res = "ok"
  /\ last.save = "ok"
  /\ Bands(data) # {}
  /\ file = DocFile(data)

NoEmptyImage(d) ==
  \A p \in AlbumsOf(d) : Image(d, p[1], p[2]) # Some(<<>>)

\* C9: load_data turns every image field "" of the document into None,
\* keeps the rest of the document and writes the result to the inventory
\* file; from the first load on, no album in memory or in the file has the
\* image "".
C9_NoEmptyImage ==
  [][/\ NoEmptyImage(data')
     /\ file'.kind = "doc"
     /\ NoEmptyImage(file'.doc)
     /\ (last'.op = "load" /\ file.kind = "doc")
          => /\ SameBandsAndAlbums(data', file.doc)
             /\ \A p \in AlbumsOf(file.doc) :
                  Image(data', p[1], p[2]) =
                    IF Image(file.doc, p[1], p[2]) = Some(<<>>)
                    THEN None
                    ELSE Image(file.doc, p[1], p[2])
             /\ file' = DocFile(data')]_vars

C9_Witness ==
  /\ last.op = "load"
  /\ last.count = 1
  /\ AlbumsOf(data) # {}
  /\ NoEmptyImage(data)
  /\ file = DocFile(data)

\* C10: load_data of a missing or unparseable inventory file gives the
\* empty catalog, the second with an error reported, the application runs,
\* and the file then holds the empty catalog.
C10_LoadRecovers ==
  [][(last'.op = "load" /\ file.kind \in {"absent", "corrupt"})
       => /\ data' = EmptyData
          /\ phase' = "running"
          /\ file' = DocFile(EmptyData)
          /\ last'.res = (IF file.kind = "absent" THEN "notfound" ELSE "error")]_vars

C10_Witness ==
  /\ last.op = "load"
  /\ last.res = "error"
  /\ phase = "running"
  /\ data = EmptyData
  /\ file = DocFile(EmptyData)

\* The image of the selected album is set and its file exists.
SelectedImageExists(d, fs) ==
  /\ Truthy(Image(d, selected_band.s, selected_album.s))
  /\ PathExists(fs, Image(d, selected_band.s, selected_album.s).s)

\* C11: in delete_album and remove_image the step that changes the catalog
\* comes after the removal of the file: it touches no file and the file of
\* the old reference is already gone; in associate_image the step that sets
\* the reference touches no file and sets it to a file that is already in
\* the image directory, the save comes after both, and at every position
\* inside associate_image a reference that is set names an existing file.
C11_FileBeforeCatalog ==
  [][/\ (last'.op \in {"delete_album", "remove_image"} /\ data' # data)
          => /\ assets' = assets
             /\ file' = file
             /\ ~SelectedImageExists(data, assets)
     /\ (last'.op \in {"delete_album", "remove_image"} /\ assets' # assets)
          => /\ data' = data
             /\ file' = file
     /\ (last'.op = "associate_image" /\ data' # data)
          => /\ assets' = assets
             /\ file' = file
             /\ Image(data', selected_band.s, selected_album.s)
                  = Some(RelPath(last.dest))
             /\ SelectedImageExists(data', assets)
     /\ (last'.op = "associate_image" /\ file' # file)
          => /\ assets' = assets
             /\ data' = data
             /\ Image(data, selected_band.s, selected_album.s)
                  = Some(RelPath(last.dest))
             /\ SelectedImageExists(data, assets)
     /\ phase' \in {"associate_image_set", "associate_image_save"}
          => (Truthy(Image(data', selected_band.s, selected_album.s))
                => SelectedImageExists(data', assets'))]_vars

\* Inside associate_image on an album that has an image: the new file is
\* copied, the reference still names the old file, and both files exist.
C11_Witness ==
  /\ phase = "associate_image_set"
  /\ last.dest \in assets
  /\ SelectedImageExists(data, assets)
  /\ Image(data, selected_band.s, selected_album.s) # Some(RelPath(last.dest))
  /\ file = DocFile(data)

\* C12: the selected band is none or a band of the catalog, the selected
\* album is none or an album of the selected band, an album is selected
\* only with a band, and delete_band, add_album, delete_album,
\* associate_image and remove_image never find their band or album missing.
C12_SelectionInCatalog ==
  /\ ~selected_band.none => selected_band.s \in Bands(data)
  /\ ~selected_album.none
       => /\ ~selected_band.none
          /\ selected_band.s \in Bands(data)
          /\ selected_album.s \in Albums(data, selected_band.s)
  /\ last.op \in {"delete_band", "add_album", "delete_album",
                  "associate_image", "remove_image"}
       => last.res \notin {"keyerror", "notfound", "noselection"}

\* After delete_album the band is still selected, no album is, and the
\* band has another album.
C12_Witness ==
  /\ last.op = "delete_album"
  /\ last.res = "ok"
  /\ Truthy(selected_band)
  /\ selected_band.s \in Bands(data)
  /\ selected_album = None
  /\ Albums(data, selected_band.s) # {}
  /\ last.arg \notin Albums(data, selected_band.s)

\* C13: every album whose image is set refers to a file of the image
\* directory.
C13_NoDanglingReference ==
  \A p \in AlbumsOf(data) :
    Truthy(Image(data, p[1], p[2]))
      => PathExists(assets, Image(data, p[1], p[2]).s)

\* After remove_image removed a file, another album still has its image.
C13_Witness ==
  /\ last.op = "remove_image"
  /\ last.res = "ok"
  /\ last.dest # <<>>
  /\ ~PathExists(assets, last.dest)
  /\ \E p \in AlbumsOf(data) :
       /\ Truthy(Image(data, p[1], p[2]))
       /\ PathExists(assets, Image(data, p[1], p[2]).s)

\* No two albums of the catalog have the same image.
NoSharedImage(d) ==
  \A p, q \in AlbumsOf(d) :
    (p # q /\ Truthy(Image(d, p[1], p[2])))
      => Image(d, p[1], p[2]) # Image(d, q[1], q[2])

\* C14: no two albums have the same image, and remove_image and
\* delete_album on an album leave the files of the other albums in the image
\* directory.
C14_NoSharedAsset ==
  [][/\ NoSharedImage(data')
     /\ last'.op \in {"remove_image", "delete_album"}
          => \A p \in AlbumsOf(data) \ {<<selected_band.s, selected_album.s>>} :
               (/\ Truthy(Image(data, p[1], p[2]))
                /\ PathExists(assets, Image(data, p[1], p[2]).s))
                 => PathExists(assets', Image(data, p[1], p[2]).s)]_vars

\* After delete_album of an album with an image, an album with the same
\* sanitized name still has its own image and file.
C14_Witness ==
  /\ last.op = "delete_album"
  /\ last.res = "ok"
  /\ (Sanitize(last.arg) \o JpgExt) \notin assets
  /\ \E p \in AlbumsOf(data) :
       /\ Image(data, p[1], p[2])
            = Some(RelPath(Suffixed(Sanitize(last.arg), 1, JpgExt)))
       /\ PathExists(assets, Image(data, p[1], p[2]).s)

\* C15: without delete_band, every file of the image directory is the
\* image of an album of the catalog.
C15_NoOrphanedAsset ==
  \A f \in assets :
    \E p \in AlbumsOf(data) : Image(data, p[1], p[2]) = Some(RelPath(f))

====
